---- MODULE Spec2Model ----
(***************************************************************************)
(* Model of flask_restframework.views.APIView: one request travelling      *)
(* through dispatch_request -> initial() (perform_authentication,          *)
(* check_permissions, check_throttles) -> the handler body, with           *)
(* handle_exception at the dispatch boundary.                              *)
(*                                                                         *)
(* Strategy classes are stubs named by their behaviour.  An instance is    *)
(* identified by its position in the instantiated list, as the code        *)
(* builds one fresh instance per configured class.                         *)
(***************************************************************************)
EXTENDS Integers, Sequences, FiniteSets, TLC

\* Longest view-level strategy list explored.
MaxLen == 2
\* Longest process-wide (current_app) default list explored.
MaxGlobalLen == 1

SeqsUpTo(S, n) == UNION {[1..k -> S] : k \in 0..n}

(***************************************************************************)
(* Collaborator stubs                                                      *)
(***************************************************************************)
\* Authenticator classes: what authenticate() does.
AuthClasses == {"NoneAuth", "AnonAuth", "UserAuth", "ApiErrAuth", "ErrAuth"}

\* authenticator.authenticate(): a tuple, None, or a raised exception.
authenticate(a) ==
    CASE a = "NoneAuth"   -> "None"
      [] a = "AnonAuth"   -> "None"
      [] a = "UserAuth"   -> "user_auth_tuple"
      [] a = "ApiErrAuth" -> "APIException"
      [] a = "ErrAuth"    -> "Exception"

\* authenticator.authenticate_header(): one distinct header per class.
authenticate_header(a) ==
    CASE a = "NoneAuth"   -> "hdr_NoneAuth"
      [] a = "AnonAuth"   -> "hdr_AnonAuth"
      [] a = "UserAuth"   -> "hdr_UserAuth"
      [] a = "ApiErrAuth" -> "hdr_ApiErrAuth"
      [] a = "ErrAuth"    -> "hdr_ErrAuth"

\* Permission classes.
PermClasses == {"AllowAny", "DenyWithMessage", "DenyPlain"}

\* permission.has_permission()
has_permission(p) == p = "AllowAny"

\* getattr(permission, "message", None)
PermMessage(p) == IF p = "DenyWithMessage" THEN "msg_DenyWithMessage" ELSE "None"

\* getattr(permission, "code", None)
PermCode(p) == IF p = "DenyWithMessage" THEN "code_DenyWithMessage" ELSE "None"

\* Throttle handler entries {"class": ..., "rate": ...}.
ThrottleHandlers ==
    { [class |-> "DenyAll",  rate |-> 2],
      [class |-> "DenyAll",  rate |-> 5],
      [class |-> "AllowAll", rate |-> 5] }

\* throttle.allow_request()
allow_request(t) == t.class = "AllowAll"

\* throttle.wait(): the stub waits for as long as its rate says.
wait(t) == t.rate

NoExc == [type |-> "None"]
NoResponse == [kind |-> "none"]

VARIABLES
    pc,                       \* position inside dispatch_request
    authenticators,           \* self.authenticators
    successful_authenticated, \* self.successful_authenticated
    authenticator,            \* self.authenticator: index of the instance, 0 = attribute absent
    current_user,             \* g.current_user
    permission_classes,       \* self.permission_classes as get_permissions read it
    global_perm_config,       \* get_permissions' local global_perm_config
    permissions,              \* the list get_permissions returned
    throttles,                \* the list get_throttles returned
    exc,                      \* the exception in flight / last raised
    response,                 \* what dispatch_request returned
    calls,                    \* history: strategy calls made, in order
    steps                     \* history: <<step, outcome>> per finished step

vars == <<pc, authenticators, successful_authenticated, authenticator, current_user,
          permission_classes, global_perm_config, permissions, throttles,
          exc, response, calls, steps>>

Init ==
    /\ pc = "perform_authentication"
    /\ authenticators = <<>>
    /\ successful_authenticated = FALSE
    /\ authenticator = 0
    /\ current_user = "Unset"
    /\ permission_classes = <<>>
    /\ global_perm_config = <<>>
    /\ permissions = <<>>
    /\ throttles = <<>>
    /\ exc = NoExc
    /\ response = NoResponse
    /\ calls = <<>>
    /\ steps = <<>>

(***************************************************************************)
(* Configuration resolution                                                *)
(***************************************************************************)
\* `view_level or process_default`: an empty list is falsy.
Resolve(view_level, process_default) ==
    IF view_level # <<>> THEN view_level ELSE process_default

get_authenticators(authentication_classes, global_auth_config) ==
    Resolve(authentication_classes, global_auth_config)

\* Variant: the view-level list always wins, the process default is ignored.
get_permissions_view_only(perm_classes, global_config) == perm_classes

get_permissions(perm_classes, global_config) ==
    Resolve(perm_classes, global_config)

\* throttle_class(throttle_rate) for every entry: the instance keeps both.
get_throttles(throttle_handlers, global_thro_config) ==
    LET hs == Resolve(throttle_handlers, global_thro_config)
    IN  [i \in 1..Len(hs) |-> [class |-> hs[i].class, rate |-> hs[i].rate]]

(***************************************************************************)
(* perform_authentication                                                  *)
(***************************************************************************)
\* Variant: no `return` after a success, so the loop runs on and the last
\* successful authenticator is the one recorded.
RECURSIVE AuthScan_no_return(_, _, _)
AuthScan_no_return(auths, i, log) ==
    IF i > Len(auths)
    THEN [status |-> "exhausted", at |-> 0, calls |-> log, exc |-> NoExc]
    ELSE LET r    == authenticate(auths[i])
             log1 == Append(log, <<"authenticate", i>>)
         IN  CASE r = "APIException" ->
                    [status |-> "raised", at |-> i,
                     calls  |-> Append(log1, <<"authenticate_header", i>>),
                     exc    |-> [type |-> "AuthenticationFailed",
                                 auth_header |-> authenticate_header(auths[i])]]
               [] r = "Exception" ->
                    [status |-> "raised", at |-> i, calls |-> log1,
                     exc    |-> [type |-> "Exception"]]
               [] r = "None" -> AuthScan_no_return(auths, i + 1, log1)
               [] OTHER ->
                    LET rest == AuthScan_no_return(auths, i + 1, log1)
                    IN  IF rest.status = "exhausted"
                        THEN [status |-> "success", at |-> i,
                              calls |-> rest.calls, exc |-> NoExc]
                        ELSE rest

\* Variant: the header attached to an API error is the first configured
\* authenticator's, not the raising one's.
RECURSIVE AuthScan_first_header(_, _, _)
AuthScan_first_header(auths, i, log) ==
    IF i > Len(auths)
    THEN [status |-> "exhausted", at |-> 0, calls |-> log, exc |-> NoExc]
    ELSE LET r    == authenticate(auths[i])
             log1 == Append(log, <<"authenticate", i>>)
         IN  CASE r = "APIException" ->
                    [status |-> "raised", at |-> i,
                     calls  |-> Append(log1, <<"authenticate_header", 1>>),
                     exc    |-> [type |-> "AuthenticationFailed",
                                 auth_header |-> authenticate_header(auths[1])]]
               [] r = "Exception" ->
                    [status |-> "raised", at |-> i, calls |-> log1,
                     exc    |-> [type |-> "Exception"]]
               [] r = "None" -> AuthScan_first_header(auths, i + 1, log1)
               [] OTHER ->
                    [status |-> "success", at |-> i, calls |-> log1, exc |-> NoExc]

\* Variant: a non-empty authenticator list that authenticates nobody raises
\* NotAuthenticated straight away.
RECURSIVE AuthScan_raise_unauthenticated(_, _, _)
AuthScan_raise_unauthenticated(auths, i, log) ==
    IF i > Len(auths)
    THEN IF auths # <<>>
         THEN [status |-> "raised", at |-> 0,
               calls  |-> Append(log, <<"authenticate_header", 1>>),
               exc    |-> [type |-> "NotAuthenticated",
                           auth_header |-> authenticate_header(auths[1])]]
         ELSE [status |-> "exhausted", at |-> 0, calls |-> log, exc |-> NoExc]
    ELSE LET r    == authenticate(auths[i])
             log1 == Append(log, <<"authenticate", i>>)
         IN  CASE r = "APIException" ->
                    [status |-> "raised", at |-> i,
                     calls  |-> Append(log1, <<"authenticate_header", i>>),
                     exc    |-> [type |-> "AuthenticationFailed",
                                 auth_header |-> authenticate_header(auths[i])]]
               [] r = "Exception" ->
                    [status |-> "raised", at |-> i, calls |-> log1,
                     exc    |-> [type |-> "Exception"]]
               [] r = "None" -> AuthScan_raise_unauthenticated(auths, i + 1, log1)
               [] OTHER ->
                    [status |-> "success", at |-> i, calls |-> log1, exc |-> NoExc]

\* The for loop of perform_authentication from instance i on; log is the
\* call history so far.
RECURSIVE AuthScan(_, _, _)
AuthScan(auths, i, log) ==
    IF i > Len(auths)
    THEN [status |-> "exhausted", at |-> 0, calls |-> log, exc |-> NoExc]
    ELSE LET r    == authenticate(auths[i])
             log1 == Append(log, <<"authenticate", i>>)
         IN  CASE r = "APIException" ->
                    [status |-> "raised", at |-> i,
                     calls  |-> Append(log1, <<"authenticate_header", i>>),
                     exc    |-> [type |-> "AuthenticationFailed",
                                 auth_header |-> authenticate_header(auths[i])]]
               [] r = "Exception" ->
                    [status |-> "raised", at |-> i, calls |-> log1,
                     exc    |-> [type |-> "Exception"]]
               [] r = "None" -> AuthScan(auths, i + 1, log1)
               [] OTHER ->
                    [status |-> "success", at |-> i, calls |-> log1, exc |-> NoExc]

(***************************************************************************)
(* check_permissions / permission_denied / get_authenticate_header         *)
(***************************************************************************)
get_authenticate_header(auths) ==
    IF auths # <<>> THEN authenticate_header(auths[1]) ELSE "None"

\* Variant: the escalation test forgets whether authentication succeeded.
permission_denied_ignores_success(auths, succeeded, message, code) ==
    IF auths # <<>>
    THEN [type |-> "NotAuthenticated", auth_header |-> get_authenticate_header(auths)]
    ELSE [type |-> "PermissionDenied", detail |-> message, code |-> code]

\* The exception permission_denied raises.
permission_denied(auths, succeeded, message, code) ==
    IF auths # <<>> /\ ~succeeded
    THEN [type |-> "NotAuthenticated", auth_header |-> get_authenticate_header(auths)]
    ELSE [type |-> "PermissionDenied", detail |-> message, code |-> code]

\* Variant: a denial is remembered but the loop keeps evaluating the
\* remaining permissions before raising for the first denial.
RECURSIVE PermScan_no_short_circuit(_, _, _, _, _)
PermScan_no_short_circuit(perms, i, log, auths, succeeded) ==
    IF i > Len(perms)
    THEN [status |-> "passed", calls |-> log, exc |-> NoExc]
    ELSE LET log1 == Append(log, <<"has_permission", i>>)
             rest == PermScan_no_short_circuit(perms, i + 1, log1, auths, succeeded)
         IN  IF ~has_permission(perms[i])
             THEN LET e == permission_denied(auths, succeeded,
                                             PermMessage(perms[i]), PermCode(perms[i]))
                  IN  [status |-> "raised",
                       calls  |-> IF rest.status = "raised" THEN rest.calls
                                  ELSE IF e.type = "NotAuthenticated"
                                  THEN Append(rest.calls, <<"authenticate_header", 1>>)
                                  ELSE rest.calls,
                       exc    |-> e]
             ELSE rest

\* The for loop of check_permissions from instance i on.
RECURSIVE PermScan(_, _, _, _, _)
PermScan(perms, i, log, auths, succeeded) ==
    IF i > Len(perms)
    THEN [status |-> "passed", calls |-> log, exc |-> NoExc]
    ELSE LET log1 == Append(log, <<"has_permission", i>>)
         IN  IF ~has_permission(perms[i])
             THEN LET e == permission_denied(auths, succeeded,
                                             PermMessage(perms[i]), PermCode(perms[i]))
                  IN  [status |-> "raised",
                       calls  |-> IF e.type = "NotAuthenticated"
                                  THEN Append(log1, <<"authenticate_header", 1>>)
                                  ELSE log1,
                       exc    |-> e]
             ELSE PermScan(perms, i + 1, log1, auths, succeeded)

(***************************************************************************)
(* check_throttles                                                         *)
(***************************************************************************)
\* The for loop of check_throttles from instance i on.
RECURSIVE ThrottleScan(_, _, _, _)
ThrottleScan(ts, i, log, durations) ==
    IF i > Len(ts)
    THEN [calls |-> log, throttle_durations |-> durations]
    ELSE LET log1 == Append(log, <<"allow_request", i>>)
         IN  IF ~allow_request(ts[i])
             THEN ThrottleScan(ts, i + 1, Append(log1, <<"wait", i>>),
                               Append(durations, wait(ts[i])))
             ELSE ThrottleScan(ts, i + 1, log1, durations)

\* Variant: the first collected duration instead of the largest.
first_duration(durations) == durations[1]

\* max(throttle_durations) of a non-empty list.
RECURSIVE max(_)
max(durations) ==
    IF Len(durations) = 1 THEN durations[1]
    ELSE LET m == max(Tail(durations))
         IN  IF durations[1] >= m THEN durations[1] ELSE m

(***************************************************************************)
(* dispatch_request                                                        *)
(***************************************************************************)
\* Variant: a raise inside check_permissions is swallowed and initial()
\* carries on with the throttles.
AfterStep_swallow(step, raised) ==
    CASE step = "perform_authentication" ->
             IF raised THEN "handle_exception" ELSE "check_permissions"
      [] step = "check_permissions" -> "check_throttles"
      [] step = "check_throttles" ->
             IF raised THEN "handle_exception" ELSE "handler"

\* Where control goes after a step of initial(): the except clause of
\* dispatch_request on a raise, else the next statement.
AfterStep(step, raised) ==
    IF raised THEN "handle_exception"
    ELSE CASE step = "perform_authentication" -> "check_permissions"
           [] step = "check_permissions"      -> "check_throttles"
           [] step = "check_throttles"        -> "handler"

Outcome(raised) == IF raised THEN "raised" ELSE "ok"

PerformAuthentication ==
    /\ pc = "perform_authentication"
    /\ \E authentication_classes \in SeqsUpTo(AuthClasses, MaxLen),
          global_auth_config \in SeqsUpTo(AuthClasses, MaxGlobalLen) :
          LET auths  == get_authenticators(authentication_classes, global_auth_config)
              r      == AuthScan(auths, 1, calls)
              raised == r.status = "raised"
          IN  /\ authenticators' = auths
              /\ successful_authenticated' = (r.status = "success")
              /\ authenticator' = IF r.status = "success" THEN r.at ELSE authenticator
              /\ current_user' = IF r.status = "exhausted" THEN "None" ELSE current_user
              /\ calls' = r.calls
              /\ exc' = r.exc
              /\ steps' = Append(steps, <<"perform_authentication", Outcome(raised)>>)
              /\ pc' = AfterStep("perform_authentication", raised)
    /\ UNCHANGED <<permission_classes, global_perm_config, permissions, throttles, response>>

CheckPermissions ==
    /\ pc = "check_permissions"
    /\ \E perm_classes \in SeqsUpTo(PermClasses, MaxLen),
          global_config \in SeqsUpTo(PermClasses, MaxGlobalLen) :
          LET perms  == get_permissions(perm_classes, global_config)
              r      == PermScan(perms, 1, calls, authenticators, successful_authenticated)
              raised == r.status = "raised"
          IN  /\ permission_classes' = perm_classes
              /\ global_perm_config' = global_config
              /\ permissions' = perms
              /\ calls' = r.calls
              /\ exc' = r.exc
              /\ steps' = Append(steps, <<"check_permissions", Outcome(raised)>>)
              /\ pc' = AfterStep("check_permissions", raised)
    /\ UNCHANGED <<authenticators, successful_authenticated, authenticator, current_user,
                   throttles, response>>

CheckThrottles ==
    /\ pc = "check_throttles"
    /\ \E throttle_handlers \in SeqsUpTo(ThrottleHandlers, MaxLen),
          global_thro_config \in SeqsUpTo(ThrottleHandlers, MaxGlobalLen) :
          LET ts     == get_throttles(throttle_handlers, global_thro_config)
              r      == ThrottleScan(ts, 1, calls, <<>>)
              raised == r.throttle_durations # <<>>
          IN  /\ throttles' = ts
              /\ calls' = r.calls
              /\ exc' = IF raised
                        THEN [type |-> "Throttled", duration |-> max(r.throttle_durations)]
                        ELSE NoExc
              /\ steps' = Append(steps, <<"check_throttles", Outcome(raised)>>)
              /\ pc' = AfterStep("check_throttles", raised)
    /\ UNCHANGED <<authenticators, successful_authenticated, authenticator, current_user,
                   permission_classes, global_perm_config, permissions, response>>

\* super().dispatch_request(*args, **kwargs): the handler body, which
\* returns a response or raises; it runs outside the try block.
Handler ==
    /\ pc = "handler"
    /\ \E body_raises \in BOOLEAN :
          /\ calls' = Append(calls, <<"handler", 0>>)
          /\ steps' = Append(steps, <<"handler", Outcome(body_raises)>>)
          /\ exc' = IF body_raises THEN [type |-> "HandlerError"] ELSE NoExc
          /\ response' = IF body_raises THEN response ELSE [kind |-> "view"]
          /\ pc' = IF body_raises THEN "raised" ELSE "done"
    /\ UNCHANGED <<authenticators, successful_authenticated, authenticator, current_user,
                   permission_classes, global_perm_config, permissions, throttles>>

\* The response the exception handler named h produces for e.
exception_handler(h, e) == [kind |-> "handled", handler |-> h, exc |-> e]

\* Variant: the configured EXCEPTION_HANDLER is never looked up.
handle_exception_default_only(configured, e) ==
    exception_handler("exceptions.exception_handler", e)

\* handle_exception(exc): getattr(current_app, "EXCEPTION_HANDLER", default)(exc)
handle_exception(configured, e) ==
    exception_handler(IF configured THEN "EXCEPTION_HANDLER" ELSE "exceptions.exception_handler", e)

\* except Exception as exc: return self.handle_exception(exc)
HandleException ==
    /\ pc = "handle_exception"
    /\ \E configured \in BOOLEAN :
          /\ response' = handle_exception(configured, exc)
          /\ calls' = Append(calls, <<IF configured THEN "EXCEPTION_HANDLER"
                                      ELSE "exceptions.exception_handler", 0>>)
    /\ steps' = Append(steps, <<"handle_exception", "ok">>)
    /\ pc' = "done"
    /\ UNCHANGED <<authenticators, successful_authenticated, authenticator, current_user,
                   permission_classes, global_perm_config, permissions, throttles, exc>>

Next ==
    \/ PerformAuthentication
    \/ CheckPermissions
    \/ CheckThrottles
    \/ Handler
    \/ HandleException

Spec == Init /\ [][Next]_vars

(***************************************************************************)
(* Vocabulary of the properties                                            *)
(***************************************************************************)
InitialSteps == {"perform_authentication", "check_permissions", "check_throttles"}

Ran(step) == \E k \in 1..Len(steps) : steps[k][1] = step

RaisedIn(step) == \E k \in 1..Len(steps) : steps[k] = <<step, "raised">>

\* The instance indices on which method `name` was called, in call order.
Idx(name) ==
    LET sel == SelectSeq(calls, LAMBDA c : c[1] = name)
    IN  [k \in 1..Len(sel) |-> sel[k][2]]

UpTo(n) == [k \in 1..n |-> k]

Raises(a) == authenticate(a) \in {"APIException", "Exception"}

ReturnsNonNone(a) == ~Raises(a) /\ authenticate(a) # "None"

\* Smallest index of S, 0 when S is empty.
Least(S) == IF S = {} THEN 0 ELSE CHOOSE i \in S : \A j \in S : i <= j

FirstSuccess == Least({i \in 1..Len(authenticators) : ReturnsNonNone(authenticators[i])})

FirstRaise == Least({i \in 1..Len(authenticators) : Raises(authenticators[i])})

\* The authenticators that get consulted raise nothing: none raises before
\* the first success (or at all, when none succeeds).
ConsultedRaiseNothing ==
    \/ FirstRaise = 0
    \/ FirstSuccess > 0 /\ FirstSuccess < FirstRaise

FirstDenial == Least({i \in 1..Len(permissions) : ~has_permission(permissions[i])})

Denying == {i \in 1..Len(throttles) : ~allow_request(throttles[i])}

\* C1: when the consulted authenticators raise nothing, the request is marked
\* authenticated with exactly the first authenticator returning non-none
\* recorded, authenticate() is called on none after it; when none returns
\* non-none the request is unauthenticated, none is recorded, nothing raised.
C1_FirstSuccessWins ==
    (Ran("perform_authentication") /\ ConsultedRaiseNothing) =>
        /\ ~RaisedIn("perform_authentication")
        /\ successful_authenticated = (FirstSuccess > 0)
        /\ authenticator = FirstSuccess
        /\ Idx("authenticate") =
               UpTo(IF FirstSuccess > 0 THEN FirstSuccess ELSE Len(authenticators))
        /\ (FirstSuccess = 0 => current_user = "None")

C1_Witness ==
    /\ pc = "check_permissions"
    /\ authenticators = <<"UserAuth", "UserAuth">>
    /\ authenticator = 1

\* C2: check_permissions raises at the first permission that returns false,
\* calls has_permission() on none after it, and passes only when all passed.
C2_FirstDenialRaises ==
    Ran("check_permissions") =>
        /\ RaisedIn("check_permissions") = (FirstDenial > 0)
        /\ Idx("has_permission") =
               UpTo(IF FirstDenial > 0 THEN FirstDenial ELSE Len(permissions))
        /\ (~RaisedIn("check_permissions") =>
                \A i \in 1..Len(permissions) : has_permission(permissions[i]))

C2_Witness ==
    /\ pc = "handle_exception"
    /\ permissions = <<"DenyPlain", "DenyWithMessage">>
    /\ Idx("has_permission") = <<1>>

\* C3: check_throttles calls allow_request() on every throttle, wait() on
\* exactly the denying ones, raises Throttled with the largest of their
\* waits when one denies, and raises nothing when none denies.
C3_ThrottleMax ==
    Ran("check_throttles") =>
        /\ Idx("allow_request") = UpTo(Len(throttles))
        /\ Len(Idx("wait")) = Cardinality(Denying)
        /\ {Idx("wait")[k] : k \in 1..Len(Idx("wait"))} = Denying
        /\ RaisedIn("check_throttles") = (Denying # {})
        /\ (Denying # {} =>
                /\ pc \in {"handle_exception", "done"}
                /\ exc.type = "Throttled"
                /\ \E i \in Denying : exc.duration = wait(throttles[i])
                /\ \A i \in Denying : wait(throttles[i]) <= exc.duration)

C3_Witness ==
    /\ pc = "handle_exception"
    /\ throttles = <<[class |-> "DenyAll", rate |-> 2], [class |-> "DenyAll", rate |-> 5]>>
    /\ exc = [type |-> "Throttled", duration |-> 5]

\* C4: a permission denial is NotAuthenticated with the first configured
\* authenticator's header when authenticators were configured and none
\* succeeded, otherwise PermissionDenied with the denying permission's
\* message and code.
C4_DenialEscalation ==
    RaisedIn("check_permissions") =>
        IF authenticators # <<>> /\ FirstSuccess = 0
        THEN exc = [type |-> "NotAuthenticated",
                    auth_header |-> authenticate_header(authenticators[1])]
        ELSE exc = [type   |-> "PermissionDenied",
                    detail |-> PermMessage(permissions[FirstDenial]),
                    code   |-> PermCode(permissions[FirstDenial])]

C4_Witness ==
    /\ RaisedIn("check_permissions")
    /\ authenticators = <<"NoneAuth", "AnonAuth">>
    /\ exc = [type |-> "NotAuthenticated", auth_header |-> "hdr_NoneAuth"]

HandlerInvoked == \E k \in 1..Len(calls) : calls[k][1] = "handler"

DefaultDenies == \E i \in 1..Len(global_perm_config) : ~has_permission(global_perm_config[i])

\* C5 as stated: with the view's permission list empty and a denying
\* permission in the process-wide default, the default permissions are not
\* evaluated and the request is not denied.
C5_EmptyOverrideWins ==
    (Ran("check_permissions") /\ permission_classes = <<>> /\ DefaultDenies) =>
        /\ Idx("has_permission") = <<>>
        /\ ~RaisedIn("check_permissions")

\* C5 amended: an empty view-level permission list means the process-wide
\* default is used, so a denying default permission is evaluated, the
\* permission check raises and the handler body is not invoked; a non-empty
\* view-level list replaces the default without merging.
C5_EmptyMeansDefault ==
    Ran("check_permissions") =>
        /\ (permission_classes = <<>> => permissions = global_perm_config)
        /\ (permission_classes # <<>> => permissions = permission_classes)
        /\ ((permission_classes = <<>> /\ DefaultDenies) =>
                /\ Idx("has_permission") # <<>>
                /\ RaisedIn("check_permissions")
                /\ ~HandlerInvoked
                /\ pc \in {"handle_exception", "done"}
                /\ (pc = "done" => response.kind = "handled"))

C5_Witness ==
    /\ pc = "done"
    /\ permission_classes = <<>>
    /\ global_perm_config = <<"DenyWithMessage">>
    /\ response.kind = "handled"

InitialFinished == pc \in {"handler", "handle_exception", "done", "raised"}

FailingAuths == {"NoneAuth", "AnonAuth"}

\* C6 as stated: authenticators = [FailingAuth] and permissions =
\* [AlwaysAllow] make the initial phase raise NotAuthenticated carrying
\* FailingAuth's header.
C6_FailingAuthRaises ==
    (/\ InitialFinished
     /\ authenticators = <<"NoneAuth">>
     /\ permissions = <<"AllowAny">>) =>
        /\ \E st \in InitialSteps : RaisedIn(st)
        /\ exc = [type |-> "NotAuthenticated", auth_header |-> "hdr_NoneAuth"]

\* C6 amended: with authenticators = [FailingAuth] (authenticate() returns
\* none) and permissions = [AlwaysAllow], neither the authentication step
\* nor the permission step raises; the request stays unauthenticated and
\* goes on to the throttle check, and NotAuthenticated is never raised.
C6_FailingAuthPasses ==
    \A a \in FailingAuths :
        (Ran("perform_authentication") /\ authenticators = <<a>>) =>
            /\ steps[1] = <<"perform_authentication", "ok">>
            /\ ~successful_authenticated
            /\ authenticator = 0
            /\ ((Ran("check_permissions") /\ permissions = <<"AllowAny">>) =>
                    /\ steps[2] = <<"check_permissions", "ok">>
                    /\ exc.type # "NotAuthenticated"
                    /\ Ran("check_throttles") = InitialFinished)

C6_Witness ==
    /\ pc = "handler"
    /\ authenticators = <<"NoneAuth">>
    /\ permissions = <<"AllowAny">>
    /\ exc = NoExc

\* Position of a strategy call in the order authentication, permissions,
\* throttles, handler body (authenticate_header belongs to the step that
\* builds the error).
Rank(c) ==
    CASE c[1] = "authenticate"                    -> 1
      [] c[1] = "has_permission"                  -> 2
      [] c[1] \in {"allow_request", "wait"}       -> 3
      [] c[1] = "handler"                         -> 4
      [] c[1] \in {"EXCEPTION_HANDLER", "exceptions.exception_handler"} -> 5
      [] OTHER                                    -> 0

\* C7: the steps run in the order authentication, permissions, throttles,
\* handler body; once a step raises no strategy of a later step is called
\* and the handler body is not invoked; the handler body runs only after
\* all three steps completed without raising.
C7_StrictOrder ==
    /\ \A j \in 2..Len(calls) :
           Rank(calls[j]) > 0 =>
               \A i \in 1..(j - 1) : Rank(calls[i]) <= Rank(calls[j])
    /\ \A k \in 1..Len(steps) :
           steps[k][1] \in InitialSteps =>
               /\ k <= 3
               /\ steps[k][1] = <<"perform_authentication", "check_permissions",
                                  "check_throttles">>[k]
               /\ \A m \in 1..(k - 1) : steps[m][2] = "ok"
    /\ (RaisedIn("perform_authentication") =>
           \A k \in 1..Len(calls) : Rank(calls[k]) \notin {2, 3, 4})
    /\ (RaisedIn("check_permissions") =>
           \A k \in 1..Len(calls) : Rank(calls[k]) \notin {3, 4})
    /\ (RaisedIn("check_throttles") =>
           \A k \in 1..Len(calls) : Rank(calls[k]) # 4)
    /\ ((HandlerInvoked \/ pc = "handler") =>
           /\ Len(steps) >= 3
           /\ \A k \in 1..3 :
                  steps[k] = <<<<"perform_authentication", "check_permissions",
                                 "check_throttles">>[k], "ok">>)

C7_Witness ==
    /\ pc = "done"
    /\ calls = << <<"authenticate", 1>>, <<"has_permission", 1>>,
                  <<"allow_request", 1>>, <<"handler", 0>> >>

HandlerCalls ==
    SelectSeq(calls, LAMBDA c : c[1] \in {"EXCEPTION_HANDLER", "exceptions.exception_handler"})

C9_HandlerErrorsHandled ==
    RaisedIn("handler") =>
        /\ pc # "raised"
        /\ (pc = "done" => response.kind = "handled" /\ response.exc = exc)

\* C10: when authenticate() raises an API error, the error carries the
\* raising authenticator's authenticate_header(), is the one that
\* propagates, no later authenticator is consulted and the request stays
\* unauthenticated with no authenticator recorded.
C10_ApiErrorHeader ==
    (/\ Ran("perform_authentication")
     /\ FirstRaise > 0
     /\ (FirstSuccess = 0 \/ FirstRaise < FirstSuccess)
     /\ authenticate(authenticators[FirstRaise]) = "APIException") =>
        /\ steps[1] = <<"perform_authentication", "raised">>
        /\ exc = [type |-> "AuthenticationFailed",
                  auth_header |-> authenticate_header(authenticators[FirstRaise])]
        /\ Idx("authenticate") = UpTo(FirstRaise)
        /\ Idx("authenticate_header") = <<FirstRaise>>
        /\ ~successful_authenticated
        /\ authenticator = 0
        /\ pc \in {"handle_exception", "done"}

C10_Witness ==
    /\ pc = "handle_exception"
    /\ authenticators = <<"NoneAuth", "ApiErrAuth">>
    /\ exc = [type |-> "AuthenticationFailed", auth_header |-> "hdr_ApiErrAuth"]

====
